---------------------------- MODULE Spec2Model ----------------------------
(***************************************************************************)
(* A model of Pydigger_current.py: the crawler that lists PyDigger         *)
(* entries, extracts their hosting links, probes the hosting pages for     *)
(* setup.py / pyproject.toml, filters the links already present in the     *)
(* log file and appends the remaining ones to it.                          *)
(*                                                                         *)
(* Text is a sequence of atoms.  An atom is a piece of text that the       *)
(* program's patterns never cut: a whitespace character, a letter, a       *)
(* digit, or a literal such as "Results".                                  *)
(***************************************************************************)
EXTENDS Integers, Sequences, FiniteSets, TLC

\* ------------------------------------------------------------------ bounds
\* Longest listing (number of rows of the listing page).
MaxCandidates == 2
\* Longest metadata page, in tokens, of the extraction specification.
MaxText == 4
\* Longest list of links handed to a stage checked on its own.
MaxList == 3
\* Longest initial log file, in atoms, of the history-filter specification.
MaxBlob == 4

\* ------------------------------------------------------------------ state
VARIABLES
    pc,                 \* per run: the statement main() is at, or how it ended
    pdig_link_list,     \* per run: main's pdig_link_list, [none, items]
    git_link_list,      \* per run: main's git_link_list
    gits_checked_list,  \* per run: main's gits_checked_list
    candidate_list,     \* per run: filterout_logged's parameter
    in_str,             \* per run: filterout_logged's in_str
    utc_now,            \* per run: main's utc_now
    requests,           \* per run: the requests.get calls made so far, by kind
    blob,               \* the content of git_log.txt
    blob0,              \* the content of git_log.txt when the runs began
    store,              \* git_log.txt: "ok", "unreadable" or "unwritable"
    remote              \* what the remote services answer

vars == <<pc, pdig_link_list, git_link_list, gits_checked_list, candidate_list,
          in_str, utc_now, requests, blob, blob0, store, remote>>

Runs == {1, 2}

\* ------------------------------------------------------------- sequences
RECURSIVE Flatten(_)
Flatten(ss) == IF ss = <<>> THEN <<>> ELSE Head(ss) \o Flatten(Tail(ss))

BoundedSeq(S, n) == UNION {[1..k -> S] : k \in 0..n}

IsPrefix(s, t) == Len(s) <= Len(t) /\ SubSeq(t, 1, Len(s)) = s

IsSubstring(s, t) ==
    \E i \in 0..(Len(t) - Len(s)) : SubSeq(t, i + 1, i + Len(s)) = s


\* ------------------------------------------------------------------ text
IsSpace(c) == c \in {" ", "\n"}

\* str.split() with no argument: the maximal runs of non-whitespace, in order.
RECURSIVE SplitFrom(_, _, _)
SplitFrom(s, i, cur) ==
    IF i > Len(s)
    THEN IF cur = <<>> THEN <<>> ELSE <<cur>>
    ELSE IF IsSpace(s[i])
         THEN IF cur = <<>>
              THEN SplitFrom(s, i + 1, <<>>)
              ELSE <<cur>> \o SplitFrom(s, i + 1, <<>>)
         ELSE SplitFrom(s, i + 1, Append(cur, s[i]))

split(s) == SplitFrom(s, 1, <<>>)

\* sep.join(items)
RECURSIVE join(_, _)
join(sep, items) ==
    IF items = <<>> THEN <<>>
    ELSE IF Len(items) = 1 THEN Head(items)
    ELSE Head(items) \o sep \o join(sep, Tail(items))

\* x in items, for a list
InList(x, items) == \E i \in 1..Len(items) : items[i] = x

\* ------------------------------------------------------ remote services
StatusOK == 200
StatusNotFound == 404
Statuses == {StatusOK, StatusNotFound}

\* The rows of the listing page that '<td><a href="/pypi/([\w-]+)' matches.
Ids == {"p", "q"}

PdigUrl(id) == <<"https://pydigger.com/pypi/", id>>

\* [-_a-zA-Z/.d]: letters (and - _ / .), no digit.  The values of the model
\* are written with the letters a, b and the digit 1.
InLinkClass(c) == c \in {"a", "b"}

\* The longest prefix of v that [-_a-zA-Z/.d]+ can match.
RECURSIVE ClassPrefix(_)
ClassPrefix(v) ==
    IF v = <<>> \/ ~InLinkClass(Head(v)) THEN <<>>
    ELSE <<Head(v)>> \o ClassPrefix(Tail(v))

GitPrefix == <<"https://git">>

\* A token of a metadata page: the literal project_urls, a closing brace, or
\* a key (Homepage, Repository) followed by '&#34;: &#34;https://git' and a
\* value.
TokPU == [k |-> "project_urls", v |-> <<>>]
TokCB == [k |-> "}", v |-> <<>>]
TokKey(key, val) == [k |-> key, v |-> val]

\* re.findall(key + '&#34;: &#34;(https://git[-_a-zA-Z/.d]+)', chunk)
RECURSIVE findall_key(_, _)
findall_key(key, chunk) ==
    IF chunk = <<>> THEN <<>>
    ELSE LET t == Head(chunk)
             rest == findall_key(key, Tail(chunk))
         IN IF t.k = key /\ ClassPrefix(t.v) # <<>>
            THEN <<GitPrefix \o ClassPrefix(t.v)>> \o rest
            ELSE rest

\* The first index >= i of text holding token t, or Len(text) + 1.
RECURSIVE IndexFrom(_, _, _)
IndexFrom(text, i, t) ==
    IF i > Len(text) THEN Len(text) + 1
    ELSE IF text[i] = t THEN i
    ELSE IndexFrom(text, i + 1, t)

\* re.compile(r'project_urls[^}]*').finditer(text): the chunks matched from
\* index i on, left to right, none overlapping another.
RECURSIVE finditer_chunks(_, _)
finditer_chunks(text, i) ==
    LET start == IndexFrom(text, i, TokPU)
    IN IF start > Len(text) THEN <<>>
       ELSE LET stop == IndexFrom(text, start, TokCB)
            IN <<SubSeq(text, start, stop - 1)>> \o finditer_chunks(text, stop)

\* The body of the for loop of get_link_from_json, for one chunk.
ChunkLinks(git_chunk) ==
    LET home_pattern == findall_key("Homepage", git_chunk)
        rep_pattern == findall_key("Repository", git_chunk)
    IN (IF home_pattern # <<>> THEN home_pattern ELSE <<>>)
       \o (IF rep_pattern # <<>> /\ rep_pattern # home_pattern
           THEN rep_pattern ELSE <<>>)

RECURSIVE LoopChunks(_)
LoopChunks(chunks) ==
    IF chunks = <<>> THEN <<>>
    ELSE ChunkLinks(Head(chunks)) \o LoopChunks(Tail(chunks))

\* get_link_from_json, given the response to requests.get(json_site).
get_link_from_json(response) ==
    IF response.status # StatusOK THEN <<>>
    ELSE LoopChunks(finditer_chunks(response.text, 1))

\* re.compile(marker).findall(web_text)
findall_marker(marker, web_text) == SelectSeq(web_text, LAMBDA a : a = marker)

\* check_setup_py_in_git: host[link] is the response to the request for link.
RECURSIVE check_setup_py_in_git(_, _)
check_setup_py_in_git(unfiltered_links, host) ==
    IF unfiltered_links = <<>> THEN <<>>
    ELSE LET link == Head(unfiltered_links)
             rest == check_setup_py_in_git(Tail(unfiltered_links), host)
         IN IF host[link].statusA # StatusOK THEN rest
            ELSE IF findall_marker("setup.py", host[link].text) # <<>>
                 THEN <<link>> \o rest
                 ELSE rest

\* filter_toml_in_git without its else: a link whose fetch failed is kept.
RECURSIVE filter_toml_keep_failed(_, _)
filter_toml_keep_failed(unfiltered_links, host) ==
    IF unfiltered_links = <<>> THEN <<>>
    ELSE LET link == Head(unfiltered_links)
             rest == filter_toml_keep_failed(Tail(unfiltered_links), host)
         IN IF host[link].statusB # StatusOK THEN <<link>> \o rest
            ELSE IF findall_marker("pyproject.toml", host[link].text) = <<>>
                 THEN <<link>> \o rest
                 ELSE rest

\* filter_toml_in_git
RECURSIVE filter_toml_in_git(_, _)
filter_toml_in_git(unfiltered_links, host) ==
    IF unfiltered_links = <<>> THEN <<>>
    ELSE LET link == Head(unfiltered_links)
             rest == filter_toml_in_git(Tail(unfiltered_links), host)
         IN IF host[link].statusB # StatusOK THEN rest
            ELSE IF findall_marker("pyproject.toml", host[link].text) = <<>>
                 THEN <<link>> \o rest
                 ELSE rest

\* filterout_logged testing 'candidate not in in_str': a substring search.
RECURSIVE filterout_logged_substring(_, _)
filterout_logged_substring(text, candidates) ==
    IF candidates = <<>> THEN <<>>
    ELSE LET candidate == Head(candidates)
             rest == filterout_logged_substring(text, Tail(candidates))
         IN IF ~IsSubstring(candidate, text)
            THEN <<candidate>> \o rest
            ELSE rest

\* filterout_logged with its test inverted: 'candidate in in_str.split()'.
RECURSIVE filterout_logged_inverted(_, _)
filterout_logged_inverted(text, candidates) ==
    IF candidates = <<>> THEN <<>>
    ELSE LET candidate == Head(candidates)
             rest == filterout_logged_inverted(text, Tail(candidates))
         IN IF InList(candidate, split(text))
            THEN <<candidate>> \o rest
            ELSE rest

\* The loop of filterout_logged, given what f.read() returned.
RECURSIVE filterout_logged(_, _)
filterout_logged(text, candidates) ==
    IF candidates = <<>> THEN <<>>
    ELSE LET candidate == Head(candidates)
             rest == filterout_logged(text, Tail(candidates))
         IN IF ~InList(candidate, split(text))
            THEN <<candidate>> \o rest
            ELSE rest

\* str(utc_now): a date, a space, a time of day.
Times == {"10:00:00", "10:00:01"}
StrTime(t) == <<"2024-08-12", " ", t>>

\* output_lines with the links joined by ',' instead of a line break.
output_lines_comma(t, links) ==
    <<"\n", "\n", "\n", "\n", "Results", " ">> \o StrTime(t) \o <<" ", ":", "\n">>
    \o join(<<",">>, links) \o <<"\n">>

\* main's output_lines
output_lines(t, links) ==
    <<"\n", "\n", "\n", "\n", "Results", " ">> \o StrTime(t) \o <<" ", ":", "\n">>
    \o join(<<"\n">>, links) \o <<"\n">>

\* get_link_from_pdig, given the response to requests.get(page): None when
\* the status is not 200, else the list of the metadata pages' addresses.
get_link_from_pdig(response) ==
    IF response.status # StatusOK
    THEN [none |-> TRUE, items |-> <<>>]
    ELSE [none |-> FALSE,
          items |-> [i \in 1..Len(response.rows) |-> PdigUrl(response.rows[i])]]

\* The first loop of main leaving at the first metadata page that fails.
RECURSIVE ScanLoopBreak(_, _)
ScanLoopBreak(links, meta) ==
    IF links = <<>> THEN <<>>
    ELSE IF meta[Head(links)[2]].status # StatusOK THEN <<>>
    ELSE get_link_from_json(meta[Head(links)[2]]) \o ScanLoopBreak(Tail(links), meta)

\* The first loop of main: git_link_list after scanning the addresses.
RECURSIVE ScanLoop(_, _)
ScanLoop(links, meta) ==
    IF links = <<>> THEN <<>>
    ELSE LET new_link_to_github == get_link_from_json(meta[Head(links)[2]])
         IN (IF new_link_to_github # <<>> THEN new_link_to_github ELSE <<>>)
            \o ScanLoop(Tail(links), meta)

\* ------------------------------------------------------------- the data
\* The hosting links the sample metadata pages can yield.
LinkA == GitPrefix \o <<"a">>
LinkAB == GitPrefix \o <<"a", "b">>
Links == {LinkA, LinkAB}

ListingResponses == [status : Statuses, rows : BoundedSeq(Ids, MaxCandidates)]

\* Sample metadata pages: no block; a block with a Homepage; a block with a
\* Homepage and another Repository.
MetaTexts ==
    { <<>>,
      <<TokPU, TokKey("Homepage", <<"a">>), TokCB>>,
      <<TokPU, TokKey("Homepage", <<"a">>), TokKey("Repository", <<"a", "b">>), TokCB>> }

MetaResponses ==
    {[status |-> StatusNotFound, text |-> <<>>]} \cup [status : {StatusOK}, text : MetaTexts]

\* Sample hosting pages, with the status of the answer to the request of
\* check_setup_py_in_git (statusA) and of filter_toml_in_git (statusB).
HostTexts ==
    { <<"x">>, <<"setup.py">>, <<"pyproject.toml", "x">>,
      <<"x", "setup.py", "pyproject.toml">> }

HostResponses ==
    { [statusA |-> StatusOK, statusB |-> StatusOK, text |-> <<"setup.py">>],
      [statusA |-> StatusOK, statusB |-> StatusOK, text |-> <<"x", "setup.py", "pyproject.toml">>],
      [statusA |-> StatusOK, statusB |-> StatusNotFound, text |-> <<"setup.py">>],
      [statusA |-> StatusNotFound, statusB |-> StatusOK, text |-> <<"setup.py">>] }

Remotes == [listing : ListingResponses, meta : [Ids -> MetaResponses],
            host : [Links -> HostResponses]]

\* Sample contents of git_log.txt: empty; a block of an earlier run that
\* reported LinkAB; a line, not ended, that holds LinkA.
InitialBlobs ==
    { <<>>, output_lines("10:00:00", <<LinkAB>>), <<"seen", " ">> \o LinkA }

Stores == {"ok", "unreadable", "unwritable"}

\* How a run ends.
Ended == {"done", "TypeError", "StoreUnavailable", "StoreWriteFailed"}

\* ------------------------------------------------------------ the runs
NoRequests == [listing |-> 0, meta |-> 0, host |-> 0]

\* The state of the runs at first: run r is at pcs[r].
Fresh(pcs) ==
    /\ pc = pcs
    /\ pdig_link_list = [r \in Runs |-> [none |-> FALSE, items |-> <<>>]]
    /\ git_link_list = [r \in Runs |-> <<>>]
    /\ gits_checked_list = [r \in Runs |-> <<>>]
    /\ candidate_list = [r \in Runs |-> <<>>]
    /\ in_str = [r \in Runs |-> <<>>]
    /\ utc_now = [r \in Runs |-> ""]
    /\ requests = [r \in Runs |-> NoRequests]

\* main opening the log file before anything else.
ListingStoreFirst(r) ==
    /\ pc[r] = "start"
    /\ IF store = "unreadable"
       THEN /\ pc' = [pc EXCEPT ![r] = "StoreUnavailable"]
            /\ UNCHANGED <<pdig_link_list, requests>>
       ELSE /\ pdig_link_list' =
                   [pdig_link_list EXCEPT ![r] = get_link_from_pdig(remote.listing)]
            /\ requests' = [requests EXCEPT ![r].listing = @ + 1]
            /\ pc' = [pc EXCEPT ![r] = "scan"]
    /\ UNCHANGED <<git_link_list, gits_checked_list, candidate_list, in_str,
                   utc_now, blob, blob0, store, remote>>

\* pdig_link_list = get_link_from_pdig(pydigger_link)
Listing(r) ==
    /\ pc[r] = "start"
    /\ pdig_link_list' = [pdig_link_list EXCEPT ![r] = get_link_from_pdig(remote.listing)]
    /\ requests' = [requests EXCEPT ![r].listing = @ + 1]
    /\ pc' = [pc EXCEPT ![r] = "scan"]
    /\ UNCHANGED <<git_link_list, gits_checked_list, candidate_list, in_str,
                   utc_now, blob, blob0, store, remote>>

\* The first scan: enumerate(None) raises TypeError.
Scan(r) ==
    /\ pc[r] = "scan"
    /\ IF pdig_link_list[r].none
       THEN /\ pc' = [pc EXCEPT ![r] = "TypeError"]
            /\ UNCHANGED <<git_link_list, requests>>
       ELSE /\ git_link_list' =
                  [git_link_list EXCEPT ![r] = ScanLoop(pdig_link_list[r].items, remote.meta)]
            /\ requests' = [requests EXCEPT ![r].meta = @ + Len(pdig_link_list[r].items)]
            /\ pc' = [pc EXCEPT ![r] = "stageA"]
    /\ UNCHANGED <<pdig_link_list, gits_checked_list, candidate_list, in_str,
                   utc_now, blob, blob0, store, remote>>

\* gits_checked_list = check_setup_py_in_git(git_link_list)
StageA(r) ==
    /\ pc[r] = "stageA"
    /\ gits_checked_list' =
           [gits_checked_list EXCEPT ![r] = check_setup_py_in_git(git_link_list[r], remote.host)]
    /\ requests' = [requests EXCEPT ![r].host = @ + Len(git_link_list[r])]
    /\ pc' = [pc EXCEPT ![r] = "stageB"]
    /\ UNCHANGED <<pdig_link_list, git_link_list, candidate_list, in_str,
                   utc_now, blob, blob0, store, remote>>

\* gits_checked_list = filter_toml_in_git(gits_checked_list)
StageB(r) ==
    /\ pc[r] = "stageB"
    /\ gits_checked_list' =
           [gits_checked_list EXCEPT ![r] = filter_toml_in_git(gits_checked_list[r], remote.host)]
    /\ requests' = [requests EXCEPT ![r].host = @ + Len(gits_checked_list[r])]
    /\ pc' = [pc EXCEPT ![r] = "history"]
    /\ UNCHANGED <<pdig_link_list, git_link_list, candidate_list, in_str,
                   utc_now, blob, blob0, store, remote>>

\* gits_checked_list = filterout_logged(log_file_name, gits_checked_list):
\* open(..., 'r') raises when the file cannot be read.
HistoryFilter(r) ==
    /\ pc[r] = "history"
    /\ candidate_list' = [candidate_list EXCEPT ![r] = gits_checked_list[r]]
    /\ IF store = "unreadable"
       THEN /\ pc' = [pc EXCEPT ![r] = "StoreUnavailable"]
            /\ UNCHANGED <<in_str, gits_checked_list>>
       ELSE /\ in_str' = [in_str EXCEPT ![r] = blob]
            /\ gits_checked_list' =
                   [gits_checked_list EXCEPT ![r] = filterout_logged(blob, gits_checked_list[r])]
            /\ pc' = [pc EXCEPT ![r] = "append"]
    /\ UNCHANGED <<pdig_link_list, git_link_list, utc_now, requests, blob, blob0,
                   store, remote>>

\* The end of main with open(log_file_name, 'w'): the file is rewritten.
AppendLogTruncate(r) ==
    /\ pc[r] = "append"
    /\ \E t \in Times :
          /\ utc_now' = [utc_now EXCEPT ![r] = t]
          /\ IF store = "unwritable"
             THEN /\ pc' = [pc EXCEPT ![r] = "StoreWriteFailed"]
                  /\ UNCHANGED blob
             ELSE /\ blob' = output_lines(t, gits_checked_list[r])
                  /\ pc' = [pc EXCEPT ![r] = "done"]
    /\ UNCHANGED <<pdig_link_list, git_link_list, gits_checked_list, candidate_list,
                   in_str, requests, blob0, store, remote>>

\* The end of main: open(log_file_name, 'a') and write(output_lines).
AppendLog(r) ==
    /\ pc[r] = "append"
    /\ \E t \in Times :
          /\ utc_now' = [utc_now EXCEPT ![r] = t]
          /\ IF store = "unwritable"
             THEN /\ pc' = [pc EXCEPT ![r] = "StoreWriteFailed"]
                  /\ UNCHANGED blob
             ELSE /\ blob' = blob \o output_lines(t, gits_checked_list[r])
                  /\ pc' = [pc EXCEPT ![r] = "done"]
    /\ UNCHANGED <<pdig_link_list, git_link_list, gits_checked_list, candidate_list,
                   in_str, requests, blob0, store, remote>>

\* One statement of main, for run r.
Step(r) ==
    \/ Listing(r)
    \/ Scan(r)
    \/ StageA(r)
    \/ StageB(r)
    \/ HistoryFilter(r)
    \/ AppendLog(r)

\* ------------------------------------------------- one run of the program
\* Run 1 is at statement at; run 2 is not started.
OneRunAt(at) == [r \in Runs |-> IF r = 1 THEN at ELSE "off"]

Init ==
    /\ remote \in Remotes
    /\ blob0 \in InitialBlobs
    /\ blob = blob0
    /\ store \in Stores
    /\ Fresh(OneRunAt("start"))

Next == \E r \in Runs : Step(r)

Spec == Init /\ [][Next]_vars

\* One run that starts with an empty log file.
InitFetch ==
    /\ remote \in Remotes
    /\ blob0 = <<>>
    /\ blob = blob0
    /\ store \in Stores
    /\ Fresh(OneRunAt("start"))

SpecFetch == InitFetch /\ [][Next]_vars

\* --------------------------------------------- two runs, one after the other
InitTwo ==
    /\ remote \in Remotes
    /\ blob0 \in InitialBlobs
    /\ blob = blob0
    /\ store \in Stores
    /\ Fresh([r \in Runs |-> "start"])

\* The second run is started when the first has ended.
NextSeq == \E r \in Runs : (r = 1 \/ pc[1] \in Ended) /\ Step(r)

SpecSeq == InitTwo /\ [][NextSeq]_vars

\* ------------------------------------------------ two runs at the same time
\* Both runs get their listing and use a log file they can read and write.
InitConc ==
    /\ remote \in [listing : [status : {StatusOK}, rows : BoundedSeq(Ids, MaxCandidates)],
                   meta : [Ids -> MetaResponses],
                   host : [Links -> HostResponses]]
    /\ blob0 \in InitialBlobs
    /\ blob = blob0
    /\ store = "ok"
    /\ Fresh([r \in Runs |-> "start"])

SpecConc == InitConc /\ [][Next]_vars

\* ------------------------------------------------------ the stages alone
\* What the services answer when a stage is checked on its own.
NoListing == [status |-> StatusOK, rows |-> <<>>]
NoMeta == [id \in Ids |-> [status |-> StatusNotFound, text |-> <<>>]]
NoHost == [l \in Links |-> [statusA |-> StatusNotFound, statusB |-> StatusNotFound,
                            text |-> <<>>]]

\* get_link_from_json on every metadata page of at most MaxText tokens.
Values == { <<"a">>, <<"b">>, <<"a", "1">>, <<"1">> }
MetaTokens ==
    {TokPU, TokCB} \cup {TokKey(key, val) : key \in {"Homepage", "Repository"}, val \in Values}

InitExtract ==
    /\ \E text \in BoundedSeq(MetaTokens, MaxText) :
          remote = [listing |-> [status |-> StatusOK, rows |-> <<"p">>],
                    meta |-> [NoMeta EXCEPT !["p"] = [status |-> StatusOK, text |-> text]],
                    host |-> NoHost]
    /\ blob0 = <<>>
    /\ blob = blob0
    /\ store = "ok"
    /\ pc = OneRunAt("scan")
    /\ pdig_link_list = [r \in Runs |-> IF r = 1 THEN get_link_from_pdig(remote.listing)
                                        ELSE [none |-> FALSE, items |-> <<>>]]
    /\ git_link_list = [r \in Runs |-> <<>>]
    /\ gits_checked_list = [r \in Runs |-> <<>>]
    /\ candidate_list = [r \in Runs |-> <<>>]
    /\ in_str = [r \in Runs |-> <<>>]
    /\ utc_now = [r \in Runs |-> ""]
    /\ requests = [r \in Runs |-> IF r = 1 THEN [NoRequests EXCEPT !.listing = 1]
                                  ELSE NoRequests]

NextExtract == Scan(1)

SpecExtract == InitExtract /\ [][NextExtract]_vars

\* The two probe stages on every list of at most MaxList links, whatever
\* the hosting pages answer.
InitProbe ==
    /\ \E host \in [Links -> [statusA : Statuses, statusB : Statuses, text : HostTexts]] :
          remote = [listing |-> NoListing, meta |-> NoMeta, host |-> host]
    /\ blob0 = <<>>
    /\ blob = blob0
    /\ store = "ok"
    /\ pc = OneRunAt("stageA")
    /\ pdig_link_list = [r \in Runs |-> [none |-> FALSE, items |-> <<>>]]
    /\ \E links \in BoundedSeq(Links, MaxList) :
          git_link_list = [r \in Runs |-> IF r = 1 THEN links ELSE <<>>]
    /\ gits_checked_list = [r \in Runs |-> <<>>]
    /\ candidate_list = [r \in Runs |-> <<>>]
    /\ in_str = [r \in Runs |-> <<>>]
    /\ utc_now = [r \in Runs |-> ""]
    /\ requests = [r \in Runs |-> IF r = 1 THEN [NoRequests EXCEPT !.listing = 1]
                                  ELSE NoRequests]

NextProbe == StageA(1) \/ StageB(1)

SpecProbe == InitProbe /\ [][NextProbe]_vars

\* filterout_logged on every list of at most MaxList candidates and every
\* readable log file of at most MaxBlob atoms.
BlobAtoms == {"https://git", "a", "b", " ", "\n"}

InitFilter ==
    /\ remote = [listing |-> NoListing, meta |-> NoMeta, host |-> NoHost]
    /\ blob0 \in BoundedSeq(BlobAtoms, MaxBlob)
    /\ blob = blob0
    /\ store \in {"ok", "unwritable"}
    /\ pc = OneRunAt("history")
    /\ pdig_link_list = [r \in Runs |-> [none |-> FALSE, items |-> <<>>]]
    /\ git_link_list = [r \in Runs |-> <<>>]
    /\ \E links \in BoundedSeq(Links, MaxList) :
          gits_checked_list = [r \in Runs |-> IF r = 1 THEN links ELSE <<>>]
    /\ candidate_list = [r \in Runs |-> <<>>]
    /\ in_str = [r \in Runs |-> <<>>]
    /\ utc_now = [r \in Runs |-> ""]
    /\ requests = [r \in Runs |-> IF r = 1 THEN [NoRequests EXCEPT !.listing = 1]
                                  ELSE NoRequests]

NextFilter == HistoryFilter(1)

SpecFilter == InitFilter /\ [][NextFilter]_vars

\* ------------------------------------------------------------------ C4
\* C4: when the listing fetch returns a non-success status, the run reports
\* a FetchError and stops there: no absent value (None) is handed on as
\* pdig_link_list, no metadata or hosting page is requested, and the log file
\* is left as it was.
C4_ListingFailureAbortsCleanly ==
    \A r \in Runs :
        (pc[r] \notin {"off", "start"} /\ remote.listing.status # StatusOK)
            => /\ pc[r] = "FetchError"
               /\ ~pdig_link_list[r].none
               /\ requests[r].meta = 0 /\ requests[r].host = 0
               /\ blob = blob0

\* ------------------------------------------------------------------ C5
\* C5 as stated: a run that fails with StoreUnavailable has requested no
\* listing, metadata or hosting page before it aborts.
C5_AbortsBeforeRemoteWork ==
    \A r \in Runs : pc[r] = "StoreUnavailable" => requests[r] = NoRequests

\* C5, amended: when the log file cannot be read the run never reaches the
\* append and leaves the file as it was; it fails with StoreUnavailable only
\* in the history filter, after the listing page, every metadata page and
\* the hosting pages of both probe stages have been requested.
C5_AbortsAfterRemoteWork ==
    \A r \in Runs :
        /\ store = "unreadable" => pc[r] \notin {"append", "done", "StoreWriteFailed"}
        /\ store = "unreadable" => blob = blob0
        /\ pc[r] = "StoreUnavailable"
             => /\ store = "unreadable"
                /\ requests[r].listing = 1
                /\ requests[r].meta = Len(pdig_link_list[r].items)
                /\ requests[r].host >= Len(git_link_list[r]) + Len(gits_checked_list[r])
                /\ candidate_list[r] = gits_checked_list[r]

C5_Witness ==
    /\ pc[1] = "StoreUnavailable"
    /\ requests[1].meta > 0
    /\ requests[1].host > Len(git_link_list[1])

\* ------------------------------------------------------------------ C6
\* One link per line.
RECURSIVE C6_Lines(_)
C6_Lines(links) ==
    IF links = <<>> THEN <<>>
    ELSE Head(links) \o <<"\n">> \o C6_Lines(Tail(links))

\* The block of a run: the separator, the header, the links one per line
\* (an empty line when there is none).
C6_Block(t, links) ==
    <<"\n", "\n", "\n", "\n">>
    \o <<"Results", " ", "2024-08-12", " ", t, " ", ":", "\n">>
    \o (IF links = <<>> THEN <<"\n">> ELSE C6_Lines(links))

\* C6: the log file is append-only and written once, at the end of the run:
\* its initial content is always a prefix of its content, it is the initial
\* content until the run is done, and a completed run has extended it by
\* exactly one block: separator, 'Results <timestamp>' header, and the list
\* the history filter returned, one link per line in the same order.
C6_AppendOnlyOneBlock ==
    /\ IsPrefix(blob0, blob)
    /\ pc[1] # "done" => blob = blob0
    /\ pc[1] = "done"
         => /\ blob = blob0 \o C6_Block(utc_now[1], gits_checked_list[1])
            /\ gits_checked_list[1] = filterout_logged(in_str[1], candidate_list[1])

C6_Witness ==
    /\ pc[1] = "done"
    /\ blob0 # <<>>
    /\ Len(gits_checked_list[1]) >= 2

\* ------------------------------------------------------------------ C7
\* What the metadata page of row id contributes.
C7_LinksOf(id) ==
    IF remote.meta[id].status = StatusOK
    THEN get_link_from_json(remote.meta[id])
    ELSE <<>>

\* How far main has come.
C7_Rank(at) ==
    CASE at = "start" -> 0
      [] at = "scan" -> 1
      [] at = "stageA" -> 2
      [] at = "stageB" -> 3
      [] at = "history" -> 4
      [] at = "append" -> 5
      [] OTHER -> 6

\* C7: per-item fetch failures are never fatal.  When the listing fetch
\* succeeds and the log file can be read and written, the run reaches the
\* append and ends done, whichever metadata or hosting pages fail: it never
\* ends in an error, it can take a step until it is done, and every step
\* brings it further.  A failed metadata fetch contributes the empty sequence
\* and the links of the other rows are flattened in the order of the rows.
C7_PerItemFailuresNotFatal ==
    /\ [](\A r \in Runs :
            (pc[r] \in {"stageA", "stageB", "history", "append"} \cup Ended
             /\ ~pdig_link_list[r].none)
              => git_link_list[r] =
                   Flatten([i \in 1..Len(remote.listing.rows) |->
                               C7_LinksOf(remote.listing.rows[i])]))
    /\ []((remote.listing.status = StatusOK /\ store = "ok")
            => /\ pc[1] \notin {"TypeError", "StoreUnavailable", "StoreWriteFailed"}
               /\ pc[1] = "done" \/ ENABLED Next)
    /\ [][C7_Rank(pc'[1]) > C7_Rank(pc[1])]_vars

C7_Witness ==
    /\ pc[1] = "done"
    /\ Len(remote.listing.rows) = 2
    /\ remote.meta[remote.listing.rows[1]].status # StatusOK
    /\ git_link_list[1] # <<>>
    /\ \E i \in 1..Len(git_link_list[1]) :
          remote.host[git_link_list[1][i]].statusA # StatusOK

\* ------------------------------------------------------------------ C1
\* C1: when the program is run to completion twice in a row against the
\* same remote data and the same log file, the list the history filter
\* returns in the second run is empty.
C1_SecondRunReportsNothing ==
    (pc[1] = "done" /\ pc[2] = "done") => gits_checked_list[2] = <<>>

C1_Witness ==
    /\ pc[1] = "done" /\ pc[2] = "done"
    /\ Len(gits_checked_list[1]) >= 2
    /\ candidate_list[2] = candidate_list[1]
    /\ blob0 # <<>>

\* ------------------------------------------------------------------ C2
\* marker occurs in the page
C2_Occurs(marker, text) == \E i \in 1..Len(text) : text[i] = marker

\* The links that pass both stages.
C2_Keep(link) ==
    /\ remote.host[link].statusA = StatusOK
    /\ C2_Occurs("setup.py", remote.host[link].text)
    /\ remote.host[link].statusB = StatusOK
    /\ ~C2_Occurs("pyproject.toml", remote.host[link].text)

\* C2: the list handed to the history filter is the subsequence of the input
\* links, in their order, whose first fetch succeeded with setup.py in the
\* page and whose second fetch succeeded with pyproject.toml not in the page;
\* a link whose fetch fails in either stage is dropped and the stage goes on,
\* and a link with both markers or with neither is dropped.
C2_ProbesAreAStableFilter ==
    /\ pc[1] = "stageB"
         => gits_checked_list[1] =
              SelectSeq(git_link_list[1],
                        LAMBDA l : /\ remote.host[l].statusA = StatusOK
                                   /\ C2_Occurs("setup.py", remote.host[l].text))
    /\ pc[1] = "history"
         => /\ gits_checked_list[1] = SelectSeq(git_link_list[1], C2_Keep)
            /\ requests[1].host >= Len(git_link_list[1])

C2_Witness ==
    /\ pc[1] = "history"
    /\ git_link_list[1] = <<LinkA, LinkAB, LinkA>>
    /\ remote.host[LinkAB].statusA # StatusOK
    /\ gits_checked_list[1] = <<LinkA, LinkA>>

\* ------------------------------------------------------------------ C3
\* The whitespace-delimited tokens of s: the maximal runs without whitespace.
C3_Tokens(s) ==
    { SubSeq(s, i, j) : <<i, j>> \in
        { ij \in (1..Len(s)) \X (1..Len(s)) :
            /\ ij[1] <= ij[2]
            /\ \A k \in ij[1]..ij[2] : ~IsSpace(s[k])
            /\ (ij[1] = 1 \/ IsSpace(s[ij[1] - 1]))
            /\ (ij[2] = Len(s) \/ IsSpace(s[ij[2] + 1])) } }

C3_NotLogged(candidate) == candidate \notin C3_Tokens(in_str[1])

\* C3: the history filter returns the subsequence of the candidates (order
\* and duplicates kept) that equal no whitespace-delimited token of the log
\* file; a candidate that is only a proper substring of a token is kept.
C3_HistoryFilterIsTokenExact ==
    pc[1] = "append"
      => /\ in_str[1] = blob0
         /\ gits_checked_list[1] = SelectSeq(candidate_list[1], C3_NotLogged)

C3_Witness ==
    /\ pc[1] = "append"
    /\ Len(candidate_list[1]) = 3
    /\ gits_checked_list[1] = <<LinkA, LinkA>>
    /\ LinkAB \in C3_Tokens(in_str[1])
    /\ IsSubstring(LinkA, in_str[1])

\* ------------------------------------------------------------------ C8
\* C8: the sequence extracted from one metadata page has at most two
\* elements and no two identical strings.
C8_AtMostTwoDistinctLinks ==
    pc[1] = "stageA"
      => /\ Len(git_link_list[1]) <= 2
         /\ \A i, j \in 1..Len(git_link_list[1]) :
               i # j => git_link_list[1][i] # git_link_list[1][j]

\* ------------------------------------------------------------------ C9
\* The page cut after its first project_urls block.
C9_FirstBlockOnly(text) ==
    LET start == IndexFrom(text, 1, TokPU)
    IN IF start > Len(text) THEN text
       ELSE SubSeq(text, 1, IndexFrom(text, start, TokCB) - 1)

\* C9: only the first project_urls block of a page is used: the result is
\* the result for the page cut after its first block.
C9_OnlyFirstBlockUsed ==
    pc[1] = "stageA"
      => git_link_list[1] =
           get_link_from_json([status |-> StatusOK,
                               text |-> C9_FirstBlockOnly(remote.meta["p"].text)])

\* ----------------------------------------------------------------- C10
\* Run s read the log file after the other run r had appended its block.
C10_ReadAfterAppend(s, r) ==
    /\ pc[r] = "done"
    /\ pc[s] \in {"append", "done"}
    /\ in_str[s] = blob0 \o output_lines(utc_now[r], gits_checked_list[r])

C10_Common(r, s) ==
    { l \in Links : InList(l, gits_checked_list[r]) /\ InList(l, gits_checked_list[s]) }

\* C10: two runs of the program on one log file.  When the runs are
\* serialised (one has appended before the other reads the log file) no link
\* is reported by both; a link is reported by both only when both read the
\* log file before either appended.
C10_SerialisedRunsShareNoLink ==
    \A r, s \in Runs :
        (r # s /\ pc[r] \in {"append", "done"} /\ pc[s] \in {"append", "done"})
          => /\ C10_ReadAfterAppend(s, r) => C10_Common(r, s) = {}
             /\ C10_Common(r, s) # {} => (in_str[r] = blob0 /\ in_str[s] = blob0)

\* The unsafe interleaving: both runs read the log file before either
\* appended, both passed the same link, and both appended it.
C10_Witness ==
    /\ pc[1] = "done" /\ pc[2] = "done"
    /\ in_str[1] = blob0 /\ in_str[2] = blob0
    /\ C10_Common(1, 2) # {}
    /\ \E r, s \in Runs :
          /\ r # s
          /\ blob = blob0 \o output_lines(utc_now[r], gits_checked_list[r])
                          \o output_lines(utc_now[s], gits_checked_list[s])

=============================================================================
